---- MODULE Spec2Model ----
(***************************************************************************)
(* Model of the CIM-10 RAG pipeline: SemanticRetriever, ExpandedRetriever, *)
(* LLMReranker, StructuredGenerator and Pipeline.                          *)
(*                                                                         *)
(* Strings are sequences of one-character strings.  A float similarity is  *)
(* an integer: distances are drawn from {0, 1, 2} and the similarity is    *)
(* 1 - distance, as in the source.  The token count of a rendered context  *)
(* block is carried by the SearchResult's document (field tok).            *)
(***************************************************************************)
EXTENDS Integers, Sequences, FiniteSets, TLC

----------------------------------------------------------------------------
(* Bounds *)

MaxIndex == 3        \* entries in the vector index (retrieval specification)
MaxPipeIndex == 1    \* entries in the vector index (pipeline specification)
MaxN == 4            \* explicit n_results / n_retrieve arguments are 0..MaxN
MaxTopK == 2         \* explicit top_k arguments are 0..MaxTopK
MaxRerankLen == 3    \* length of the candidate list handed to rerank
MaxIndices == 2      \* length of the index list the provider returns
MaxCtx == 3          \* length of the context handed to generate

----------------------------------------------------------------------------
(* Program constants *)

MAX_CONTEXT_TOKENS == 6000
DEFAULT_N_RETRIEVE == 15
DEFAULT_TOP_K == 10
PROMPT_CANDIDATES == 20

----------------------------------------------------------------------------
(* Python list primitives *)

Min(a, b) == IF a <= b THEN a ELSE b

Max(a, b) == IF a >= b THEN a ELSE b

\* s[:k] for k >= 0
Take(s, k) == SubSeq(s, 1, Min(Max(k, 0), Len(s)))

\* n // 2 for n >= 0
HalfOf(n) == n \div 2

\* str(n) for an int
RECURSIVE NatToStr(_)
NatToStr(n) ==
    LET d == <<"0", "1", "2", "3", "4", "5", "6", "7", "8", "9">>[(n % 10) + 1]
    IN  IF n < 10 THEN <<d>> ELSE NatToStr(n \div 10) \o <<d>>

IntToStr(n) == IF n < 0 THEN <<"-">> \o NatToStr(0 - n) ELSE NatToStr(n)

\* " ".join(terms)
RECURSIVE JoinTerms(_)
JoinTerms(terms) ==
    IF terms = <<>> THEN <<>>
    ELSE IF Len(terms) = 1 THEN terms[1]
    ELSE terms[1] \o <<" ">> \o JoinTerms(Tail(terms))

\* list.sort(key=lambda r: r.similarity, reverse=True): stable, descending
RECURSIVE InsertDesc(_, _)
InsertDesc(x, s) ==
    IF s = <<>> THEN <<x>>
    ELSE IF s[1].similarity >= x.similarity
         THEN <<s[1]>> \o InsertDesc(x, Tail(s))
         ELSE <<x>> \o s

Unsorted(s) == s

RECURSIVE SortBySimilarityDesc(_)
SortBySimilarityDesc(s) ==
    IF s = <<>> THEN <<>>
    ELSE InsertDesc(s[Len(s)], SortBySimilarityDesc(SubSeq(s, 1, Len(s) - 1)))

----------------------------------------------------------------------------
(* Data model *)

\* SearchResult built from one neighbour returned by the index
SearchResult(entry, dist) ==
    [code |-> entry.code, page_number |-> entry.page_number,
     tok |-> entry.tok, similarity |-> 1 - dist]

\* The entries ingestion may have stored, in upsert order.  Two entries may
\* carry the same code and page (the stored id adds a positional suffix).
Catalogue ==
    << [code |-> <<"A">>, page_number |-> 12, tok |-> 3000],
       [code |-> <<"A", "1">>, page_number |-> 2, tok |-> 3000],
       [code |-> <<"A">>, page_number |-> 12, tok |-> 1],
       [code |-> <<"A", "_", "1">>, page_number |-> 2, tok |-> 3001],
       [code |-> <<"A">>, page_number |-> 2, tok |-> 1] >>

IndexOfSize(n) == SubSeq(Catalogue, 1, Min(n, Len(Catalogue)))

QueryTexts == {<<"q">>}

TermLists == {<<>>, <<<<"t">>>>, <<<<"t">>, <<"u">>>>}

\* cosine distance lies in [0, 2]
DistSet == {0, 1, 2}

----------------------------------------------------------------------------
(* State *)

VARIABLES
    index,       \* the collection: stored entries, in upsert order
    pc,          \* position of the call in progress
    text,        \* the query text
    n_retrieve,  \* breadth bound to the call
    top_k,       \* width bound to the call
    n_results,   \* ExpandedRetriever.search: the breadth it was called with
    omitted,     \* which keyword arguments the caller left to their defaults
    primary,     \* ExpandedRetriever.search: the primary set
    secondary,   \* ExpandedRetriever.search: the secondary set
    results,     \* the list search returned
    reranked,    \* the list rerank returned
    aliased,     \* rerank returned the very list object it was given
    context,     \* the blocks _build_context kept
    response,    \* the RAGResponse generate returned
    raised,      \* an exception left the call
    reply,       \* the completion provider's answer to the running stage
    calls,       \* external calls made by the running stage
    stages,      \* stage invocations made by Pipeline.query
    surface,     \* the serving surface in front of the pipeline, if any
    api_key,     \* OPENAI_API_KEY is set in the environment
    _pipeline,   \* the surface holds a Pipeline (the global is not None)
    phase,       \* lifecycle of the surface
    answered,    \* the surface's answer to the last request, and the phase then
    frames,      \* the local variables of each concurrent caller's call
    instance     \* the attributes of the Pipeline instance

concurrent == <<frames, instance>>

serving == <<surface, api_key, _pipeline, phase, answered>>

vars == <<index, pc, text, n_retrieve, top_k, n_results, omitted, primary, secondary,
          results, reranked, aliased, context, response, raised, reply,
          calls, stages, serving, concurrent>>

\* a Pipeline built and called directly, with no serving surface in front
NotServing ==
    /\ surface = "none"
    /\ api_key = FALSE
    /\ _pipeline = FALSE
    /\ phase = "none"
    /\ answered = [code |-> "none", phase |-> "none"]

NoReply == [kind |-> "none", terms |-> <<>>, indices |-> <<>>,
            codes |-> <<>>, warnings |-> <<>>]

EmptyResponse == [codes |-> <<>>, coding_rules |-> <<>>, warnings |-> <<>>,
                  related_codes |-> <<>>]

Call(op, txt, n, list) == [op |-> op, text |-> txt, n |-> n, list |-> list]

\* the callers that may be inside Pipeline.query at the same time
Callers == {"c1", "c2"}

\* self.retriever, self.reranker and self.generator as __init__ bound them
Components == [retriever |-> "ExpandedRetriever", reranker |-> "LLMReranker",
               generator |-> "StructuredGenerator"]

\* the locals of a call that has not been entered
IdleFrame == [pc |-> "idle", text |-> <<>>, n_retrieve |-> 0, top_k |-> 0,
              primary |-> <<>>, secondary |-> <<>>, results |-> <<>>,
              reranked |-> <<>>, reply |-> NoReply,
              response |-> EmptyResponse, raised |-> FALSE]

\* one caller at a time uses the instance
NotConcurrent ==
    /\ frames = [c \in Callers |-> IdleFrame]
    /\ instance = Components

----------------------------------------------------------------------------
(* SemanticRetriever *)

KFromCountOnly(n, count) == IF count = 0 THEN 1 ELSE count

\* min(n_results, self.count() or 1)
QueryK(n, count) == Min(n, IF count = 0 THEN 1 ELSE count)

\* Sequences of m distinct positions of the collection
DistinctPositions(count, m) ==
    {p \in [1..m -> 1..count] : \A i, j \in 1..m : i # j => p[i] # p[j]}

\* collection.query(n_results=k): up to k neighbours of the stored entries, in
\* any order, each with a distance; or a reply without documents.
IndexQuery(idx, k) ==
    {[docs |-> FALSE, pos |-> <<>>, dist |-> <<>>]} \cup
    UNION {
        UNION { {[docs |-> TRUE, pos |-> p, dist |-> d] : d \in [1..m -> DistSet]}
                : p \in DistinctPositions(Len(idx), m) }
        : m \in 0..Min(Max(k, 0), Len(idx)) }

\* The body of search after the embedding call returned
SemanticResults(idx, raw) ==
    IF ~raw.docs THEN <<>>
    ELSE SortBySimilarityDesc(
            [i \in 1..Len(raw.pos) |-> SearchResult(idx[raw.pos[i]], raw.dist[i])])

\* search(query, n_results): the embedding call raises, or a list is returned
SemanticSearch(idx, n) ==
    {[raised |-> TRUE, value |-> <<>>]} \cup
    {[raised |-> FALSE, value |-> SemanticResults(idx, raw)] :
        raw \in IndexQuery(idx, QueryK(n, Len(idx)))}

\* The calls one base.search makes: the embedding call returns one vector or
\* raises, and only then the collection is queried
SearchCalls(query, n, out) ==
    << Call("base.search", query, n, <<>>),
       Call("embeddings.create", query, IF out.raised THEN 0 ELSE 1, <<>>) >>

----------------------------------------------------------------------------
(* ExpandedRetriever *)

KeyWithoutSeparator(r) == r.code \o IntToStr(r.page_number)

\* f"{r.code}_{r.page_number}"
DedupKey(r) == r.code \o <<"_">> \o IntToStr(r.page_number)

RECURSIVE Unique(_, _, _)
Unique(rs, seen, unique) ==
    IF rs = <<>> THEN unique
    ELSE IF DedupKey(rs[1]) \in seen
         THEN Unique(Tail(rs), seen, unique)
         ELSE Unique(Tail(rs), seen \cup {DedupKey(rs[1])}, Append(unique, rs[1]))

_deduplicate(rs) == SortBySimilarityDesc(Unique(rs, {}, <<>>))

\* _expand: the provider raises, returns no parsed object, or returns terms
ExpandReplies ==
    {[NoReply EXCEPT !.kind = "raise"], [NoReply EXCEPT !.kind = "null"]} \cup
    {[NoReply EXCEPT !.kind = "parsed", !.terms = t] : t \in TermLists}

\* the string _expand returns
ExpandedQuery(query, r) ==
    IF r.kind = "null" THEN query
    ELSE query \o <<" ">> \o JoinTerms(r.terms)

\* primary = self._base.search(query, n_results=n_results)
SearchPrimary ==
    /\ pc = "search"
    /\ \E out \in SemanticSearch(index, n_results) :
          /\ calls' = SearchCalls(text, n_results, out)
          /\ IF out.raised
             THEN /\ pc' = "failed"
                  /\ raised' = TRUE
                  /\ primary' = <<>>
             ELSE /\ pc' = "expand"
                  /\ raised' = FALSE
                  /\ primary' = out.value
    /\ UNCHANGED <<concurrent, serving, index, text, n_retrieve, top_k, n_results, omitted, secondary, results,
                   reranked, aliased, context, response, reply, stages>>

\* expanded_query = self._expand(query), and the except clause around it
Expand ==
    /\ pc = "expand"
    /\ \E r \in ExpandReplies :
          /\ reply' = r
          /\ calls' = Append(calls, Call("complete.expand", text, 0, <<>>))
          /\ IF r.kind = "raise"
             THEN /\ secondary' = <<>>
                  /\ results' = _deduplicate(primary \o <<>>)
                  /\ pc' = "searched"
             ELSE /\ pc' = "secondary"
                  /\ UNCHANGED <<secondary, results>>
    /\ UNCHANGED <<concurrent, serving, index, text, n_retrieve, top_k, n_results, omitted, primary, reranked,
                   aliased, context, response, raised, stages>>

\* secondary = self._base.search(expanded_query, n_results=n_results // 2),
\* the except clause around it, and return _deduplicate(primary + secondary)
SearchSecondary ==
    /\ pc = "secondary"
    /\ \E out \in SemanticSearch(index, HalfOf(n_results)) :
          /\ calls' = calls \o SearchCalls(ExpandedQuery(text, reply),
                                            HalfOf(n_results), out)
          /\ secondary' = IF out.raised THEN <<>> ELSE out.value
          /\ results' = _deduplicate(primary \o secondary')
          /\ pc' = "searched"
    /\ UNCHANGED <<concurrent, serving, index, text, n_retrieve, top_k, n_results, omitted, primary, reranked,
                   aliased, context, response, raised, reply, stages>>

\* A caller invokes ExpandedRetriever.search(query, n_results) directly
InitRetrieve ==
    /\ index \in {IndexOfSize(n) : n \in 0..MaxIndex}
    /\ pc = "search"
    /\ text \in QueryTexts
    /\ n_results \in 0..MaxN
    /\ n_retrieve = 0
    /\ top_k = 0
    /\ omitted = [n_retrieve |-> FALSE, top_k |-> FALSE]
    /\ primary = <<>>
    /\ secondary = <<>>
    /\ results = <<>>
    /\ reranked = <<>>
    /\ aliased = FALSE
    /\ context = <<>>
    /\ response = EmptyResponse
    /\ raised = FALSE
    /\ reply = NoReply
    /\ calls = <<>>
    /\ stages = <<>>
    /\ NotServing
    /\ NotConcurrent

NextRetrieve == SearchPrimary \/ Expand \/ SearchSecondary

SpecRetrieve == InitRetrieve /\ [][NextRetrieve]_vars

----------------------------------------------------------------------------
(* LLMReranker *)

\* results[i]
PyItem(s, i) == IF i >= 0 THEN s[i + 1] ELSE s[Len(s) + i + 1]

\* results[i] raises IndexError
RaisesIndexError(s, i) == i >= Len(s) \/ i < 0 - Len(s)

OnlyWhenShorter(rs, k) == Len(rs) < k

\* if len(results) <= top_k: return results
NoRerankNeeded(rs, k) == Len(rs) <= k

\* valid = [i for i in parsed.indices if i < len(results)]
ValidIndices(indices, rs) == SelectSeq(indices, LAMBDA i : i < Len(rs))

Untruncated(valid, k) == valid

\* valid[:top_k]
Selection(valid, k) == Take(valid, k)

\* The value rerank returns once the provider call has ended with reply r
RerankReturn(rs, k, r) ==
    IF r.kind = "parsed"
    THEN LET valid == ValidIndices(r.indices, rs)
             sel == Selection(valid, k)
         IN  IF valid # <<>> /\ \A j \in 1..Len(sel) : ~RaisesIndexError(rs, sel[j])
             THEN [j \in 1..Len(sel) |-> PyItem(rs, sel[j])]
             ELSE Take(rs, k)
    ELSE Take(rs, k)

\* ints the provider may return: below -len, aliasing the last candidate, the
\* first candidates, the last one, past the end, and the first position that
\* the prompt does not show
ProviderIndices ==
    {0 - MaxRerankLen - 1, 0 - 1, 0, 1, MaxRerankLen - 1, MaxRerankLen,
     PROMPT_CANDIDATES}

IndexLists == UNION {[1..m -> ProviderIndices] : m \in 0..MaxIndices}

\* the provider raises, returns no parsed object, or returns a list of ints
RerankReplies ==
    {[NoReply EXCEPT !.kind = "raise"], [NoReply EXCEPT !.kind = "null"]} \cup
    {[NoReply EXCEPT !.kind = "parsed", !.indices = ix] : ix \in IndexLists}

\* reranker.rerank(text, results, top_k=top_k)
Rerank ==
    /\ pc = "searched"
    /\ pc' = "reranked"
    /\ stages' = Append(stages, Call("rerank", text, top_k, results))
    /\ primary' = <<>>
    /\ secondary' = <<>>
    /\ IF NoRerankNeeded(results, top_k)
       THEN /\ reranked' = results
            /\ aliased' = TRUE
            /\ calls' = <<>>
            /\ reply' = NoReply
       ELSE \E r \in RerankReplies :
            /\ reply' = r
            /\ calls' = <<Call("complete.rerank", text, top_k,
                               Take(results, PROMPT_CANDIDATES))>>
            /\ reranked' = RerankReturn(results, top_k, r)
            /\ aliased' = FALSE
    /\ UNCHANGED <<concurrent, serving, index, text, n_retrieve, top_k, n_results, omitted, results,
                   context, response, raised>>

----------------------------------------------------------------------------
(* StructuredGenerator *)

\* len(enc.encode(part)) for part = f"---\n{r.document}\n"
_count_tokens(r) == r.tok

RECURSIVE SkipParts(_, _, _)
SkipParts(rs, tokens, parts) ==
    IF rs = <<>> THEN parts
    ELSE LET t == _count_tokens(rs[1])
         IN  IF tokens + t > MAX_CONTEXT_TOKENS
             THEN SkipParts(Tail(rs), tokens, parts)
             ELSE SkipParts(Tail(rs), tokens + t, Append(parts, rs[1]))

SkippingContext(rs) == SkipParts(rs, 0, <<>>)

\* the loop of _build_context: break at the first block that does not fit
RECURSIVE BuildParts(_, _, _)
BuildParts(rs, tokens, parts) ==
    IF rs = <<>> THEN parts
    ELSE LET t == _count_tokens(rs[1])
         IN  IF tokens + t > MAX_CONTEXT_TOKENS
             THEN parts
             ELSE BuildParts(Tail(rs), tokens + t, Append(parts, rs[1]))

_build_context(rs) == BuildParts(rs, 0, <<>>)

ParsedResponses ==
    {[NoReply EXCEPT !.kind = "parsed", !.codes = c, !.warnings = w] :
        c \in {<<>>, <<"R50">>}, w \in {<<>>, <<"w">>}}

\* the provider raises, returns no parsed object, or returns a RAGResponse
GenerateReplies ==
    {[NoReply EXCEPT !.kind = "raise"], [NoReply EXCEPT !.kind = "null"]} \cup
    ParsedResponses

SilentFailure(r) ==
    IF r.kind = "null" THEN EmptyResponse
    ELSE [EmptyResponse EXCEPT !.codes = r.codes, !.warnings = r.warnings]

\* the value generate returns once the provider call has returned reply r
GenerateReturn(r) ==
    IF r.kind = "null"
    THEN [EmptyResponse EXCEPT !.warnings = <<"LLM response parsing failed">>]
    ELSE [EmptyResponse EXCEPT !.codes = r.codes, !.warnings = r.warnings]

\* generator.generate(text, reranked)
Generate ==
    /\ pc = "reranked"
    /\ stages' = Append(stages, Call("generate", text, 0, reranked))
    /\ context' = _build_context(reranked)
    /\ calls' = <<Call("complete.generate", text, 0, context')>>
    /\ \E r \in GenerateReplies :
          /\ reply' = r
          /\ IF r.kind = "raise"
             THEN /\ pc' = "failed"
                  /\ raised' = TRUE
                  /\ response' = response
             ELSE /\ pc' = "done"
                  /\ raised' = FALSE
                  /\ response' = GenerateReturn(r)
    /\ UNCHANGED <<concurrent, serving, index, text, n_retrieve, top_k, n_results, omitted, primary,
                   secondary, results, reranked, aliased>>

----------------------------------------------------------------------------
(* Pipeline *)

\* explicit n_retrieve and top_k arguments of the callers of Pipeline.query
QueryBreadths == {1, 2}

QueryWidths == {0, 1}

WidthAsBreadth(n, k) == k

\* n_results=n_retrieve
SearchBreadth(n, k) == n

\* Pipeline.query(text, n_retrieve=15, top_k=10) is entered, with the keyword
\* arguments left out as one of Omit says, and calls
\* self.retriever.search(text, n_results=n_retrieve)
EnterQuery(Omit) ==
    /\ pc = "idle"
    /\ \E t \in QueryTexts, n \in QueryBreadths, k \in QueryWidths, om \in Omit :
          LET nr == IF om.n_retrieve THEN DEFAULT_N_RETRIEVE ELSE n
              tk == IF om.top_k THEN DEFAULT_TOP_K ELSE k
          IN  /\ text' = t
              /\ omitted' = om
              /\ n_retrieve' = nr
              /\ top_k' = tk
              /\ n_results' = SearchBreadth(nr, tk)
              /\ stages' = <<Call("search", t, SearchBreadth(nr, tk), <<>>)>>
    /\ pc' = "search"
    /\ UNCHANGED <<index, primary, secondary, results, reranked, aliased,
                   context, response, raised, reply, calls>>

\* a caller invokes Pipeline.query directly, with any of its arguments
Query ==
    /\ EnterQuery([n_retrieve : BOOLEAN, top_k : BOOLEAN])
    /\ UNCHANGED <<concurrent, serving>>

\* the call has returned or raised; the instance is ready for the next one
Return ==
    /\ pc \in {"done", "failed"}
    /\ pc' = "idle"
    /\ text' = <<>>
    /\ n_retrieve' = 0
    /\ top_k' = 0
    /\ n_results' = 0
    /\ omitted' = [n_retrieve |-> FALSE, top_k |-> FALSE]
    /\ primary' = <<>>
    /\ secondary' = <<>>
    /\ results' = <<>>
    /\ reranked' = <<>>
    /\ aliased' = FALSE
    /\ context' = <<>>
    /\ response' = EmptyResponse
    /\ raised' = FALSE
    /\ reply' = NoReply
    /\ calls' = <<>>
    /\ stages' = <<>>
    /\ UNCHANGED <<concurrent, serving, index>>

Init ==
    /\ index \in {IndexOfSize(n) : n \in 0..MaxPipeIndex}
    /\ pc = "idle"
    /\ text = <<>>
    /\ n_retrieve = 0
    /\ top_k = 0
    /\ n_results = 0
    /\ omitted = [n_retrieve |-> FALSE, top_k |-> FALSE]
    /\ primary = <<>>
    /\ secondary = <<>>
    /\ results = <<>>
    /\ reranked = <<>>
    /\ aliased = FALSE
    /\ context = <<>>
    /\ response = EmptyResponse
    /\ raised = FALSE
    /\ reply = NoReply
    /\ calls = <<>>
    /\ stages = <<>>
    /\ NotServing
    /\ NotConcurrent

Next ==
    \/ Query
    \/ SearchPrimary
    \/ Expand
    \/ SearchSecondary
    \/ Rerank
    \/ Generate
    \/ Return

Spec == Init /\ [][Next]_vars

----------------------------------------------------------------------------
(* The serving surfaces: the FastAPI application and the Streamlit page *)

\* the per-call variables of Pipeline.query
call == <<pc, text, n_retrieve, top_k, n_results, omitted, primary, secondary,
          results, reranked, aliased, context, response, raised, reply,
          calls, stages>>

\* a start-up that only looks at the credentials
RefusedWithoutKeyOnly(key, count) == ~key

\* lifespan raises without OPENAI_API_KEY and _build_pipeline raises on an
\* empty vector store; init_pipeline returns None in the same two cases
StartupRefused(key, count) == ~key \/ count = 0

\* both surfaces call pipeline.query(text) and leave the keyword arguments out
SurfaceArguments == {[n_retrieve |-> TRUE, top_k |-> TRUE]}

Answer(code) == [code |-> code, phase |-> phase]

\* lifespan, up to the yield: the application starts or fails to start
lifespan_startup ==
    /\ surface = "http"
    /\ phase = "down"
    /\ IF StartupRefused(api_key, Len(index))
          THEN /\ phase' = "failed"
               /\ _pipeline' = FALSE
          ELSE /\ phase' = "ready"
               /\ _pipeline' = TRUE
    /\ UNCHANGED <<concurrent, surface, api_key, answered, index, call>>

\* lifespan, after the yield.  query_codes is a coroutine that never awaits,
\* so the event loop runs the shutdown only while no request is being handled
lifespan_shutdown ==
    /\ surface = "http"
    /\ phase = "ready"
    /\ pc = "idle"
    /\ _pipeline' = FALSE
    /\ phase' = "stopped"
    /\ UNCHANGED <<concurrent, surface, api_key, answered, index, call>>

\* POST /query; the handler is entered in whatever phase the application is
query_codes ==
    /\ surface = "http"
    /\ pc = "idle"
    /\ IF ~_pipeline
          THEN /\ answered' = Answer("503")
               /\ UNCHANGED <<index, call>>
          ELSE /\ answered' = Answer("accepted")
               /\ EnterQuery(SurfaceArguments)
    /\ UNCHANGED <<concurrent, surface, api_key, _pipeline, phase>>

\* one run of the Streamlit script: init_pipeline is computed on the first run
\* and cached, then the page stops on an error or queries on a submitted text
main ==
    /\ surface = "ui"
    /\ pc = "idle"
    /\ LET built == IF phase = "down"
                      THEN ~StartupRefused(api_key, Len(index))
                      ELSE _pipeline
       IN  /\ _pipeline' = built
           /\ phase' = IF built THEN "ready" ELSE "failed"
           /\ IF ~built
                 THEN /\ answered' = Answer("error")
                      /\ UNCHANGED <<index, call>>
                 ELSE \E submit \in BOOLEAN :
                        IF submit
                          THEN /\ answered' = [code |-> "accepted", phase |-> "ready"]
                               /\ EnterQuery(SurfaceArguments)
                          ELSE /\ answered' = [code |-> "page", phase |-> "ready"]
                               /\ UNCHANGED <<index, call>>
    /\ UNCHANGED <<concurrent, surface, api_key>>

InitServe ==
    /\ index \in {IndexOfSize(n) : n \in 0..MaxPipeIndex}
    /\ pc = "idle"
    /\ text = <<>>
    /\ n_retrieve = 0
    /\ top_k = 0
    /\ n_results = 0
    /\ omitted = [n_retrieve |-> FALSE, top_k |-> FALSE]
    /\ primary = <<>>
    /\ secondary = <<>>
    /\ results = <<>>
    /\ reranked = <<>>
    /\ aliased = FALSE
    /\ context = <<>>
    /\ response = EmptyResponse
    /\ raised = FALSE
    /\ reply = NoReply
    /\ calls = <<>>
    /\ stages = <<>>
    /\ surface \in {"http", "ui"}
    /\ api_key \in BOOLEAN
    /\ _pipeline = FALSE
    /\ phase = "down"
    /\ answered = [code |-> "none", phase |-> "down"]
    /\ NotConcurrent

NextServe ==
    \/ lifespan_startup
    \/ lifespan_shutdown
    \/ query_codes
    \/ main
    \/ SearchPrimary
    \/ Expand
    \/ SearchSecondary
    \/ Rerank
    \/ Generate
    \/ Return

SpecServe == InitServe /\ [][NextServe]_vars

----------------------------------------------------------------------------
(* Concurrent callers of Pipeline.query on one Pipeline instance *)

\* a value written to self would be seen by every call on the instance
StoreOnInstance(fs, c, f) == [d \in DOMAIN fs |-> f]

\* every value a call computes is bound to a local name of that call
StoreLocal(fs, c, f) == [fs EXCEPT ![c] = f]

\* each caller asks about a text of its own
CallerText(c) == <<c>>

\* the rerank replies considered for concurrent calls: at most one index
ShortReplies == {r \in RerankReplies : Len(r.indices) <= 1}

\* caller c enters Pipeline.query(text, n_retrieve=15, top_k=10)
CallQuery(c) ==
    /\ frames[c].pc = "idle"
    /\ \E n \in QueryBreadths \cup {DEFAULT_N_RETRIEVE},
          k \in QueryWidths \cup {DEFAULT_TOP_K} :
          frames' = StoreLocal(frames, c,
                       [IdleFrame EXCEPT !.pc = "search", !.text = CallerText(c),
                                         !.n_retrieve = n, !.top_k = k])
    /\ UNCHANGED <<instance, serving, index, call>>

\* primary = self._base.search(query, n_results=n_results) in c's call
CallSearchPrimary(c) ==
    /\ frames[c].pc = "search"
    /\ \E out \in SemanticSearch(index, SearchBreadth(frames[c].n_retrieve,
                                                       frames[c].top_k)) :
          frames' = StoreLocal(frames, c,
                       IF out.raised
                       THEN [frames[c] EXCEPT !.pc = "failed", !.raised = TRUE]
                       ELSE [frames[c] EXCEPT !.pc = "expand",
                                              !.primary = out.value])
    /\ UNCHANGED <<instance, serving, index, call>>

\* expanded_query = self._expand(query) in c's call
CallExpand(c) ==
    /\ frames[c].pc = "expand"
    /\ \E r \in ExpandReplies :
          frames' = StoreLocal(frames, c,
                       IF r.kind = "raise"
                       THEN [frames[c] EXCEPT
                                !.pc = "searched",
                                !.results = _deduplicate(frames[c].primary \o <<>>)]
                       ELSE [frames[c] EXCEPT !.pc = "secondary"])
    /\ UNCHANGED <<instance, serving, index, call>>

\* secondary = self._base.search(expanded_query, n_results // 2) in c's call
CallSearchSecondary(c) ==
    /\ frames[c].pc = "secondary"
    /\ \E out \in SemanticSearch(index, HalfOf(frames[c].n_retrieve)) :
          LET sec == IF out.raised THEN <<>> ELSE out.value
          IN  frames' = StoreLocal(frames, c,
                           [frames[c] EXCEPT
                               !.pc = "searched",
                               !.secondary = sec,
                               !.results = _deduplicate(frames[c].primary \o sec)])
    /\ UNCHANGED <<instance, serving, index, call>>

\* reranked = self.reranker.rerank(text, results, top_k=top_k) in c's call;
\* the locals of the search have gone with its frame
CallRerank(c) ==
    /\ frames[c].pc = "searched"
    /\ LET f == [frames[c] EXCEPT !.pc = "reranked", !.primary = <<>>,
                                  !.secondary = <<>>]
       IN  IF NoRerankNeeded(f.results, f.top_k)
           THEN frames' = StoreLocal(frames, c, [f EXCEPT !.reranked = f.results])
           ELSE \E r \in ShortReplies :
                  frames' = StoreLocal(frames, c,
                               [f EXCEPT !.reply = r,
                                         !.reranked = RerankReturn(f.results,
                                                                   f.top_k, r)])
    /\ UNCHANGED <<instance, serving, index, call>>

\* return self.generator.generate(text, reranked) in c's call
CallGenerate(c) ==
    /\ frames[c].pc = "reranked"
    /\ \E r \in GenerateReplies :
          LET f == [IdleFrame EXCEPT !.text = frames[c].text, !.reply = r]
          IN  frames' = StoreLocal(frames, c,
                           IF r.kind = "raise"
                           THEN [f EXCEPT !.pc = "failed", !.raised = TRUE]
                           ELSE [f EXCEPT !.pc = "done",
                                          !.response = GenerateReturn(r)])
    /\ UNCHANGED <<instance, serving, index, call>>

\* c has its response or its exception
CallReturn(c) ==
    /\ frames[c].pc \in {"done", "failed"}
    /\ frames' = StoreLocal(frames, c, IdleFrame)
    /\ UNCHANGED <<instance, serving, index, call>>

\* the shared collection is empty or holds the first entry of the catalogue
InitConcurrent ==
    /\ index \in {<<>>, <<Head(Catalogue)>>}
    /\ pc = "idle"
    /\ text = <<>>
    /\ n_retrieve = 0
    /\ top_k = 0
    /\ n_results = 0
    /\ omitted = [n_retrieve |-> FALSE, top_k |-> FALSE]
    /\ primary = <<>>
    /\ secondary = <<>>
    /\ results = <<>>
    /\ reranked = <<>>
    /\ aliased = FALSE
    /\ context = <<>>
    /\ response = EmptyResponse
    /\ raised = FALSE
    /\ reply = NoReply
    /\ calls = <<>>
    /\ stages = <<>>
    /\ NotServing
    /\ NotConcurrent

NextConcurrent ==
    \E c \in Callers :
        \/ CallQuery(c)
        \/ CallSearchPrimary(c)
        \/ CallExpand(c)
        \/ CallSearchSecondary(c)
        \/ CallRerank(c)
        \/ CallGenerate(c)
        \/ CallReturn(c)

SpecConcurrent == InitConcurrent /\ [][NextConcurrent]_vars

----------------------------------------------------------------------------
(* LLMReranker.rerank called directly on arbitrary candidate lists *)

CandidatePool == {SearchResult(Catalogue[i], 0) : i \in 1..3}

\* a list one longer than the prompt shows, of distinct candidates
LongCandidates ==
    [i \in 1..(PROMPT_CANDIDATES + 1) |->
        [code |-> <<"A">>, page_number |-> i, tok |-> 1, similarity |-> 0]]

CandidateLists ==
    UNION {[1..m -> CandidatePool] : m \in 0..MaxRerankLen} \cup {LongCandidates}

InitRerank ==
    /\ index = <<>>
    /\ pc = "searched"
    /\ text \in QueryTexts
    /\ n_retrieve = 0
    /\ top_k \in (0..MaxTopK) \cup {DEFAULT_TOP_K}
    /\ n_results = 0
    /\ omitted = [n_retrieve |-> FALSE, top_k |-> FALSE]
    /\ primary = <<>>
    /\ secondary = <<>>
    /\ results \in CandidateLists
    /\ reranked = <<>>
    /\ aliased = FALSE
    /\ context = <<>>
    /\ response = EmptyResponse
    /\ raised = FALSE
    /\ reply = NoReply
    /\ calls = <<>>
    /\ stages = <<>>
    /\ NotServing
    /\ NotConcurrent

NextRerank == Rerank

SpecRerank == InitRerank /\ [][NextRerank]_vars

----------------------------------------------------------------------------
(* StructuredGenerator.generate called directly on arbitrary contexts *)

BlockSizes == {1, 2999, 3000, 3001, 6000, 6001}

ContextPool ==
    {[code |-> <<"A">>, page_number |-> 1, tok |-> t, similarity |-> 0] :
        t \in BlockSizes}

ContextLists == UNION {[1..m -> ContextPool] : m \in 0..MaxCtx}

InitContext ==
    /\ index = <<>>
    /\ pc = "reranked"
    /\ text \in QueryTexts
    /\ n_retrieve = 0
    /\ top_k = 0
    /\ n_results = 0
    /\ omitted = [n_retrieve |-> FALSE, top_k |-> FALSE]
    /\ primary = <<>>
    /\ secondary = <<>>
    /\ results = <<>>
    /\ reranked \in ContextLists
    /\ aliased = FALSE
    /\ context = <<>>
    /\ response = EmptyResponse
    /\ raised = FALSE
    /\ reply = NoReply
    /\ calls = <<>>
    /\ stages = <<>>
    /\ NotServing
    /\ NotConcurrent

NextContext == Generate

SpecContext == InitContext /\ [][NextContext]_vars

----------------------------------------------------------------------------
(* Properties *)

Elems(s) == {s[i] : i \in 1..Len(s)}

SortedDesc(s) == \A i \in 1..(Len(s) - 1) : s[i].similarity >= s[i + 1].similarity

SameKey(a, b) == a.code = b.code /\ a.page_number = b.page_number

InBounds(i, n) == 0 <= i /\ i < n

RECURSIVE Tokens(_)
Tokens(s) == IF s = <<>> THEN 0 ELSE s[1].tok + Tokens(Tail(s))

CallsOf(op) == SelectSeq(calls, LAMBDA c : c.op = op)

\* C1: whatever the provider does, rerank returns at most top_k results, each
\* of them an element of the list it was given.
C1_RerankSubsetAtMostTopK ==
    pc = "reranked" =>
        /\ Len(reranked) <= top_k
        /\ Elems(reranked) \subseteq Elems(results)

C1_Witness ==
    /\ pc = "reranked"
    /\ reply.kind = "parsed"
    /\ top_k >= 1
    /\ Len(ValidIndices(reply.indices, results)) > top_k
    /\ \E j \in 1..Len(reply.indices) : reply.indices[j] < 0
    /\ reranked # Take(results, top_k)

\* C2: with more than top_k candidates, when the provider raises, returns no
\* parsed object or returns no index that is within the bounds of the
\* candidate list, rerank returns the first top_k candidates in input order.
C2_FallbackWhenNoValidIndex ==
    ( /\ pc = "reranked"
      /\ Len(results) > top_k
      /\ \/ reply.kind \in {"raise", "null"}
         \/ /\ reply.kind = "parsed"
            /\ \A j \in 1..Len(reply.indices) :
                  ~InBounds(reply.indices[j], Len(results)) )
    => reranked = Take(results, top_k)

\* C3: with at most top_k candidates rerank returns the list it was given,
\* the same object with the same elements in the same order, and makes no
\* call to the completion provider.
C3_ShortInputReturnedUnchanged ==
    (pc = "reranked" /\ Len(results) <= top_k) =>
        /\ aliased
        /\ reranked = results
        /\ calls = <<>>

C3_Witness ==
    /\ pc = "reranked"
    /\ Len(results) = top_k
    /\ top_k >= 2
    /\ aliased
    /\ reranked = results

\* C4: the list ExpandedRetriever.search returns holds no two results with the
\* same (code, page_number), and every (code, page_number) of the primary and
\* secondary sets survives: results with different pairs are never merged.
C4_OneResultPerKey ==
    pc = "searched" =>
        /\ \A i, j \in 1..Len(results) :
              i # j => ~SameKey(results[i], results[j])
        /\ \A r \in Elems(primary \o secondary) :
              \E u \in Elems(results) : SameKey(u, r)
        /\ Elems(results) \subseteq Elems(primary \o secondary)

C4_Witness ==
    /\ pc = "searched"
    /\ Len(results) < Len(primary) + Len(secondary)
    /\ \E u, v \in Elems(results) :
          /\ u.code = <<"A">> /\ u.page_number = 12
          /\ v.code = <<"A", "1">> /\ v.page_number = 2

\* C5: every list SemanticRetriever.search returns (the primary and the
\* secondary set) and every list ExpandedRetriever.search returns is in
\* non-increasing order of similarity.
C5_SortedBySimilarity ==
    /\ SortedDesc(primary)
    /\ SortedDesc(secondary)
    /\ SortedDesc(results)

C5_Witness ==
    /\ pc = "searched"
    /\ reply.kind = "parsed"
    /\ ~SortedDesc(primary \o secondary)
    /\ Len(results) >= 2
    /\ results[1].similarity > results[Len(results)].similarity

\* C6: SemanticRetriever.search returns at most min(n_results, count())
\* results; on an empty index, when the embedding call succeeds, it returns
\* an empty list and does not raise.
C6_AtMostMinOfBreadthAndCount ==
    /\ Len(primary) <= Min(n_results, Len(index))
    /\ Len(secondary) <= Min(HalfOf(n_results), Len(index))
    /\ ( /\ Len(index) = 0
         /\ Len(calls) = 2
         /\ calls[2].op = "embeddings.create"
         /\ calls[2].n = 1 )
       => (pc = "expand" /\ ~raised /\ primary = <<>>)

C6_Witness ==
    /\ pc = "expand"
    /\ Len(index) = 0
    /\ n_results > 0
    /\ calls[2].n = 1
    /\ primary = <<>>

\* C7: the blocks _build_context keeps total at most MAX_CONTEXT_TOKENS tokens
\* and are exactly the longest prefix of the input whose cumulative token count
\* stays within the budget; nothing after the first block that does not fit
\* is kept.
C7_ContextIsLongestFittingPrefix ==
    pc \in {"done", "failed"} =>
        /\ Tokens(context) <= MAX_CONTEXT_TOKENS
        /\ Len(context) <= Len(reranked)
        /\ context = SubSeq(reranked, 1, Len(context))
        /\ Len(context) < Len(reranked) =>
              Tokens(SubSeq(reranked, 1, Len(context) + 1)) > MAX_CONTEXT_TOKENS

C7_Witness ==
    /\ pc = "done"
    /\ Len(context) >= 1
    /\ \E j \in (Len(context) + 2)..Len(reranked) :
          Tokens(context) + reranked[j].tok <= MAX_CONTEXT_TOKENS

\* C8: when the provider call of generate returns without a parsed object,
\* generate (and so Pipeline.query) returns a response with no codes and at
\* least one warning, and does not raise.
C8_NullGenerationDegrades ==
    ( /\ stages # <<>>
      /\ stages[Len(stages)].op = "generate"
      /\ reply.kind = "null" )
    => /\ pc = "done"
       /\ ~raised
       /\ response.codes = <<>>
       /\ response.warnings # <<>>

C8_Witness ==
    /\ pc = "done"
    /\ reply.kind = "null"
    /\ Len(reranked) >= 1
    /\ response.warnings # <<>>

\* C9: Pipeline.query invokes search, then rerank, then generate, each once:
\* search with breadth n_retrieve (15 when omitted), rerank with the list
\* search returned and width top_k (10 when omitted), generate with the list
\* rerank returned; after a stage raises no later stage is invoked.
C9_StagesInFixedOrder ==
    /\ pc = "idle" => stages = <<>>
    /\ pc \in {"search", "expand", "secondary", "searched"} => Len(stages) = 1
    /\ pc = "reranked" => Len(stages) = 2
    /\ pc = "done" => Len(stages) = 3 /\ ~raised
    /\ pc = "failed" => raised /\ Len(stages) \in {1, 3}
    /\ (pc = "failed" /\ Len(calls) = 2) => Len(stages) = 1
    /\ Len(stages) >= 1 =>
          /\ stages[1] = Call("search", text, n_retrieve, <<>>)
          /\ n_results = n_retrieve
          /\ omitted.n_retrieve => stages[1].n = DEFAULT_N_RETRIEVE
    /\ Len(stages) >= 2 =>
          /\ stages[2] = Call("rerank", text, top_k, results)
          /\ omitted.top_k => stages[2].n = DEFAULT_TOP_K
    /\ Len(stages) >= 3 => stages[3] = Call("generate", text, 0, reranked)

C9_Witness ==
    /\ pc = "done"
    /\ omitted.n_retrieve
    /\ omitted.top_k
    /\ Len(results) >= 1
    /\ Len(stages) = 3

\* C10: when query expansion fails (the provider raises, or returns no parsed
\* object or an empty list of terms), the secondary set is empty, no second
\* retrieval takes place, nothing is raised and the output is the primary set
\* deduplicated and sorted.
C10_NoSecondaryOnExpansionFailure ==
    ( /\ pc = "searched"
      /\ \/ reply.kind \in {"raise", "null"}
         \/ reply.kind = "parsed" /\ reply.terms = <<>> )
    => /\ secondary = <<>>
       /\ Len(CallsOf("base.search")) = 1
       /\ ~raised
       /\ results = _deduplicate(primary)

\* C11: when an embedding call fails, in the primary retrieval or in the
\* retrieval of the expanded query, the failure leaves Pipeline.query: no
\* result list is produced and neither rerank nor generate is invoked.
C11_EmbeddingFailureAborts ==
    (\E i \in 1..Len(calls) : calls[i].op = "embeddings.create" /\ calls[i].n = 0)
    => /\ pc = "failed"
       /\ raised
       /\ Len(stages) = 1

Presented(rs) == Min(PROMPT_CANDIDATES, Len(rs))

Eligible(indices, rs) == SelectSeq(indices, LAMBDA i : InBounds(i, Presented(rs)))

\* C14: with more than top_k candidates and a list of indices from the
\* provider, rerank returns the candidates at the returned indices that lie
\* in 0 <= i < min(20, len(results)), in the provider's order, cut to top_k;
\* no candidate at input position 20 or later is returned.
C14_OnlyPresentedCandidates ==
    (pc = "reranked" /\ Len(results) > top_k /\ reply.kind = "parsed") =>
        LET el == Eligible(reply.indices, results)
        IN  /\ el # <<>> =>
                 reranked = Take([j \in 1..Len(el) |-> results[el[j] + 1]], top_k)
            /\ \A x \in Elems(reranked) :
                 \E q \in 1..Presented(results) : results[q] = x

NoRepeats(s) == \A i, j \in 1..Len(s) : i # j => s[i] # s[j]

\* C16: when the candidate list holds no candidate twice, the list rerank
\* returns holds no candidate twice, whatever indices the provider returns.
C16_NoCandidateTwice ==
    (pc = "reranked" /\ NoRepeats(results)) => NoRepeats(reranked)

KeysOf(s) == {<<s[i].code, s[i].page_number>> : i \in 1..Len(s)}

C12_ReadyOnlyWhenConfigured ==
    /\ phase = "ready" => api_key /\ Len(index) > 0
    /\ _pipeline <=> phase = "ready"
    /\ (~api_key \/ Len(index) = 0) =>
          /\ phase \in {"down", "failed"}
          /\ pc = "idle"
          /\ stages = <<>>
          /\ answered.code # "accepted"
    /\ pc # "idle" => phase = "ready" /\ answered.code = "accepted"
    /\ answered.code = "accepted" => answered.phase = "ready"
    /\ (surface = "http" /\ answered.code # "none") =>
          (answered.code = "503" <=> answered.phase # "ready")

\* a request after the shutdown of a started application was answered 503
C12_Witness ==
    /\ surface = "http"
    /\ phase = "stopped"
    /\ api_key /\ Len(index) > 0
    /\ answered = [code |-> "503", phase |-> "stopped"]

\* the lists base.search may return on the index for breadth n
SearchValues(idx, n) == {out.value : out \in {o \in SemanticSearch(idx, n) : ~o.raised}}

\* frame f of caller c holds what c's call computes alone from c's own
\* arguments and the answers c's own provider and index calls received
RunsAsAlone(c, f) ==
    /\ f.pc # "idle" => f.text = CallerText(c)
    /\ f.pc \in {"expand", "secondary", "searched"} =>
          f.primary \in SearchValues(index, f.n_retrieve)
    /\ f.pc = "searched" =>
          /\ f.secondary \in {<<>>} \cup SearchValues(index, HalfOf(f.n_retrieve))
          /\ f.results = _deduplicate(f.primary \o f.secondary)
    /\ f.pc = "reranked" =>
          f.reranked = IF NoRerankNeeded(f.results, f.top_k) THEN f.results
                       ELSE RerankReturn(f.results, f.top_k, f.reply)
    /\ f.pc = "done" => f.response = GenerateReturn(f.reply) /\ ~f.raised
    /\ f.pc = "failed" => f.raised /\ f.response = EmptyResponse

\* C13: whatever the interleaving of the callers, each call holds what it
\* would compute alone from its own arguments and answers, a step of one call
\* leaves the locals of every other call as they were, and no step changes
\* the components of the instance or the index.
C13_ConcurrentCallsIndependent ==
    /\ [](\A c \in Callers : RunsAsAlone(c, frames[c]))
    /\ [](instance = Components)
    /\ [][ /\ index' = index
           /\ instance' = instance
           /\ \A c, d \in Callers :
                 (c # d /\ frames'[c] # frames[c]) => frames'[d] = frames[d] ]_vars

\* one call has its response while the other, entered with other arguments,
\* is between its search and its rerank
C13_Witness ==
    /\ frames["c1"].pc = "done"
    /\ frames["c1"].response.codes # <<>>
    /\ frames["c2"].pc = "searched"
    /\ frames["c2"].results # <<>>
    /\ frames["c2"].top_k < Len(frames["c2"].results)

====
